---- MODULE Spec2Model ----
(***************************************************************************)
(* A model of flac_to_opus_converter.py (FlacToOpusConverter): the scan of *)
(* the music root, the interactive selection, the per-album conversion on  *)
(* a ThreadPoolExecutor and the deletion of the originals.                 *)
(*                                                                         *)
(* A file is a record [dir, name]. A directory is the sequence of its path *)
(* components below the music root (<<>> is the root itself). A file name  *)
(* is a record [pre, stem, ext] standing for the string                    *)
(*      "._" repeated pre times, then the stem, then "." and ext.          *)
(* A line typed by the operator is a sequence of one-character strings.    *)
(***************************************************************************)
EXTENDS Integers, Sequences, FiniteSets

VARIABLES
    fs,                     \* the files on disk
    pc,                     \* where the main thread is
    exit_code,              \* the process' exit status once pc = "exit"
    runs,                   \* calls of run() so far (run() restarts itself)
    albums,                 \* run(): the catalog of find_albums_with_flac
    typed,                  \* the tokens the operator meant by the last line
    selection,              \* get_user_selection: the last line, stripped, lowered
    selected_albums,        \* get_user_selection / run(): the chosen albums
    ai,                     \* run(): position i of the album loop
    successful_albums,      \* run(): counter of albums that returned True
    flac_with_opus,         \* handle_existing_opus_files: deletion candidates
    delete_choice,          \* handle_existing_opus_files: the operator's answer
    deleted_files,          \* handle_existing_opus_files: the returned list
    todo,                   \* convert_album: files the submit loop has not reached
    future_to_file,         \* convert_album: file name -> state of its future
    collected,              \* convert_album: futures as_completed has yielded
    successful_conversions, \* convert_album
    failed_conversions,     \* convert_album
    ret,                    \* the value convert_album returned last
    unlinks,                \* unlink() calls of the current convert_album
    fs0                     \* the files on disk when convert_album was entered

vars == <<fs, pc, exit_code, runs, albums, typed, selection, selected_albums,
          ai, successful_albums, flac_with_opus, delete_choice, deleted_files,
          todo, future_to_file, collected, successful_conversions,
          failed_conversions, ret, unlinks, fs0>>

(***************************************************************************)
(* Bounds of the model.                                                    *)
(***************************************************************************)
MaxFiles == 3       \* files on disk at the start (Spec)
MaxRuns == 2        \* calls of run() (the restarts of "convert more albums?")
MaxTokens == 2      \* tokens of a selection line (SpecSel)
MaxAlbums == 2      \* albums of the catalog (SpecSel)

\* ThreadPoolExecutor(max_workers=4)
max_workers == 4

(***************************************************************************)
(* File names.                                                             *)
(***************************************************************************)
Nm(pre, stem, ext) == [pre |-> pre, stem |-> stem, ext |-> ext]

File(d, n) == [dir |-> d, name |-> n]

\* str.lower() on the extension of a name
LowerExt(e) == IF e = "FLAC" THEN "flac" ELSE e

\* f.lower().endswith('.flac')
IsFlacName(n) == LowerExt(n.ext) = "flac"

\* flac_file.rsplit('.', 1)[0] + '.opus'
OpusFile(n) == [n EXCEPT !.ext = "opus"]

\* f"._{flac_path.name}"
MetadataFile(n) == [n EXCEPT !.pre = @ + 1]

\* album_path.glob("._*")
MatchesMetadataGlob(n) == n.pre >= 1

Root == <<>>
D1 == <<1>>
D11 == <<1, 1>>

\* The names a file of directory D1 may have at the start.
Names1 ==
    {Nm(0, 1, "flac"), Nm(0, 1, "FLAC"), Nm(0, 2, "flac"),
     Nm(0, 1, "opus"), Nm(0, 2, "opus"),
     Nm(1, 1, "flac"), Nm(1, 1, "opus")}

\* The files that may be on disk at the start: an album directory, a
\* directory nested in it, and a FLAC file directly in the music root.
Universe ==
    {File(D1, n) : n \in Names1}
    \cup {File(D11, Nm(0, 1, "flac")), File(D11, Nm(0, 1, "opus"))}
    \cup {File(Root, Nm(0, 1, "flac"))}

RECURSIVE SubsetsUpTo(_, _)
\* the subsets of S with at most k elements
SubsetsUpTo(S, k) ==
    IF k = 0 \/ S = {} THEN {{}}
    ELSE LET x == CHOOSE y \in S : TRUE
             rest == S \ {x}
         IN  SubsetsUpTo(rest, k) \cup {T \cup {x} : T \in SubsetsUpTo(rest, k - 1)}

(***************************************************************************)
(* find_albums_with_flac                                                   *)
(***************************************************************************)
\* lexicographic order of two relative paths (sorted(key=relative_path))
RECURSIVE PathLess(_, _)
PathLess(p, q) ==
    IF p = <<>> THEN q # <<>>
    ELSE IF q = <<>> THEN FALSE
    ELSE IF Head(p) # Head(q) THEN Head(p) < Head(q)
    ELSE PathLess(Tail(p), Tail(q))

RECURSIVE SortByPath(_)
\* the albums of set S as a sequence sorted by relative path
SortByPath(S) ==
    IF S = {} THEN <<>>
    ELSE LET m == CHOOSE a \in S : \A b \in S \ {a} : PathLess(a.path, b.path)
         IN  <<m>> \o SortByPath(S \ {m})

\* os.walk: every directory below the root that holds a file
WalkDirs(files) == {f.dir : f \in files}

\* The order in which os.walk lists the files of a directory is the file
\* system's; the model lists them by stem, then prefix, then extension.
ExtRank(e) == CASE e = "flac" -> 0 [] e = "FLAC" -> 1 [] OTHER -> 2

ListKey(n) == 100 * n.stem + 10 * n.pre + ExtRank(n.ext)

RECURSIVE Listing(_)
Listing(ns) ==
    IF ns = {} THEN <<>>
    ELSE LET m == CHOOSE x \in ns : \A y \in ns : ListKey(x) <= ListKey(y)
         IN  <<m>> \o Listing(ns \ {m})

\* the elements of a sequence
Range(q) == {q[k] : k \in 1..Len(q)}

\* the files of the directories below d are listed with those of d
FlacFilesBelow(files, d) ==
    Listing({f.name : f \in {g \in files :
                               /\ Len(g.dir) >= Len(d)
                               /\ SubSeq(g.dir, 1, Len(d)) = d
                               /\ IsFlacName(g.name)}})

\* flac_files = [f for f in files if f.lower().endswith('.flac')]
FlacFilesIn(files, d) ==
    Listing({f.name : f \in {g \in files : g.dir = d /\ IsFlacName(g.name)}})

find_albums_with_flac(files) ==
    SortByPath({[path |-> d, flac_files |-> FlacFilesIn(files, d)] :
                d \in {e \in WalkDirs(files) : e # Root /\ FlacFilesIn(files, e) # <<>>}})

(***************************************************************************)
(* Lines of text: str.strip, str.lower, str.split, int                     *)
(***************************************************************************)
Digits == <<"0", "1", "2", "3", "4", "5", "6", "7", "8", "9">>

IsDigit(c) == \E i \in 1..10 : Digits[i] = c

DigitVal(c) == (CHOOSE i \in 1..10 : Digits[i] = c) - 1

LowerChar(c) == IF c = "A" THEN "a" ELSE IF c = "L" THEN "l" ELSE c

Lower(s) == [i \in 1..Len(s) |-> LowerChar(s[i])]

RECURSIVE LStrip(_)
LStrip(s) == IF s # <<>> /\ Head(s) = " " THEN LStrip(Tail(s)) ELSE s

RECURSIVE RStrip(_)
RStrip(s) ==
    IF s # <<>> /\ s[Len(s)] = " " THEN RStrip(SubSeq(s, 1, Len(s) - 1)) ELSE s

Strip(s) == RStrip(LStrip(s))

RECURSIVE Split(_, _)
\* s.split(sep) for a one-character separator: never empty
Split(s, sep) ==
    IF \A i \in 1..Len(s) : s[i] # sep THEN <<s>>
    ELSE LET k == CHOOSE i \in 1..Len(s) :
                      s[i] = sep /\ \A j \in 1..(i - 1) : s[j] # sep
         IN  <<SubSeq(s, 1, k - 1)>> \o Split(SubSeq(s, k + 1, Len(s)), sep)

RECURSIVE DigitsValue(_)
DigitsValue(s) ==
    IF s = <<>> THEN 0 ELSE 10 * DigitsValue(SubSeq(s, 1, Len(s) - 1)) + DigitVal(s[Len(s)])

\* int(s): surrounding blanks are ignored; anything but digits is a ValueError
IntOk(s) == Strip(s) # <<>> /\ \A i \in 1..Len(Strip(s)) : IsDigit(Strip(s)[i])

IntVal(s) == DigitsValue(Strip(s))

(***************************************************************************)
(* get_user_selection: one line of the operator, from input() to the next  *)
(* prompt                                                                  *)
(***************************************************************************)
\* one part of selection.split(','), stripped
PartIsRange(part) == \E i \in 1..Len(part) : part[i] = "-"

\* start, end = map(int, part.split('-')) raises no ValueError
RangeOk(part) ==
    LET pieces == Split(part, "-")
    IN  Len(pieces) = 2 /\ IntOk(pieces[1]) /\ IntOk(pieces[2])

\* range(start, end): the last index of the range is lost
RangeIndicesExclusive(part) ==
    LET pieces == Split(part, "-")
        start == IntVal(pieces[1])
        end == IntVal(pieces[2])
    IN  {i \in start..(end - 1) : TRUE}

\* range(start, end + 1)
RangeIndices(part) ==
    LET pieces == Split(part, "-")
        start == IntVal(pieces[1])
        end == IntVal(pieces[2])
    IN  {i \in start..end : TRUE}

PartOk(part) == IF PartIsRange(part) THEN RangeOk(part) ELSE IntOk(part)

PartIndices(part) == IF PartIsRange(part) THEN RangeIndices(part) ELSE {IntVal(part)}

\* the parts of the line, each stripped
Parts(sel) == LET ps == Split(sel, ",") IN [k \in 1..Len(ps) |-> Strip(ps[k])]

\* the for loop over the parts completes without a ValueError
ParseOk(sel) == \A k \in 1..Len(Parts(sel)) : PartOk(Parts(sel)[k])

\* selected_indices after the loop
SelectedIndices(sel) == UNION {PartIndices(Parts(sel)[k]) : k \in 1..Len(Parts(sel))}

\* valid_indices = {i for i in selected_indices if 1 <= i <= len(albums)}
ValidIndices(indices, n) == {i \in indices : 1 <= i /\ i <= n}

RECURSIVE Sorted(_)
\* sorted(valid_indices)
Sorted(S) ==
    IF S = {} THEN <<>>
    ELSE LET m == CHOOSE x \in S : \A y \in S : x <= y
         IN  <<m>> \o Sorted(S \ {m})

\* [albums[i-1] for i in sorted(valid_indices)]
AlbumsAt(catalog, indices) ==
    LET order == Sorted(indices) IN [k \in 1..Len(order) |-> catalog[order[k]]]

(***************************************************************************)
(* What the operator types: a list of tokens, written out as a line.       *)
(***************************************************************************)
Tok(k, i, j) == [k |-> k, i |-> i, j |-> j]

\* the tokens an operator may use against a catalog of n albums
Tokens(n) ==
    {Tok("int", i, 0) : i \in 0..(n + 1)}
    \cup {Tok("padded", i, 0) : i \in 1..n}
    \cup {Tok("range", i, j) : i, j \in 0..(n + 1)}
    \cup {Tok("open", 1, 0), Tok("junk", 0, 0), Tok("all", 0, 0), Tok("ALL", 0, 0)}

RECURSIVE SeqsUpTo(_, _)
\* the sequences over S of length at most k
SeqsUpTo(S, k) ==
    IF k = 0 THEN {<<>>}
    ELSE LET shorter == SeqsUpTo(S, k - 1)
         IN  shorter \cup {Append(q, x) : q \in {r \in shorter : Len(r) = k - 1}, x \in S}

RECURSIVE Decimal(_)
\* str(i) for i >= 0
Decimal(i) ==
    IF i < 10 THEN <<Digits[i + 1]>> ELSE Decimal(i \div 10) \o <<Digits[(i % 10) + 1]>>

RenderToken(t) ==
    CASE t.k = "int" -> Decimal(t.i)
      [] t.k = "padded" -> <<" ">> \o Decimal(t.i) \o <<" ">>
      [] t.k = "range" -> Decimal(t.i) \o <<"-">> \o Decimal(t.j)
      [] t.k = "open" -> Decimal(t.i) \o <<"-">>
      [] t.k = "junk" -> <<"x">>
      [] t.k = "all" -> <<"a", "l", "l">>
      [] t.k = "ALL" -> <<"A", "L", "L">>

RECURSIVE Render(_)
\* the line typed for a list of tokens: the tokens joined by commas
Render(ts) ==
    IF ts = <<>> THEN <<>>
    ELSE IF Len(ts) = 1 THEN RenderToken(ts[1])
    ELSE RenderToken(ts[1]) \o <<",">> \o Render(Tail(ts))

(***************************************************************************)
(* The state after construction, and run()                                 *)
(***************************************************************************)
\* the locals of get_user_selection
selVars == <<typed, selection>>

\* the locals of run()
runVars == <<albums, selected_albums, ai, successful_albums>>

\* the locals of convert_album and handle_existing_opus_files
albumVars == <<flac_with_opus, delete_choice, deleted_files, todo, future_to_file,
               collected, successful_conversions, failed_conversions, ret,
               unlinks, fs0>>

NoUnlinks == [existing |-> {}, existing_metadata |-> {}, flac |-> {}, metadata |-> {}]

\* the locals of get_user_selection, of run() and of convert_album before use
FreshLocals ==
    /\ typed = <<>>
    /\ selection = <<>>
    /\ albums = <<>>
    /\ selected_albums = <<>>
    /\ ai = 0
    /\ successful_albums = 0
    /\ flac_with_opus = {}
    /\ delete_choice = "none"
    /\ deleted_files = {}
    /\ todo = <<>>
    /\ future_to_file = <<>>
    /\ collected = {}
    /\ successful_conversions = {}
    /\ failed_conversions = {}
    /\ ret = TRUE
    /\ unlinks = NoUnlinks
    /\ fs0 = {}

\* get_user_selection has returned: its locals are gone
ResetSelection ==
    /\ typed' = <<>>
    /\ selection' = <<>>

\* convert_album has returned, or is about to start: its locals are fresh
ResetAlbum ==
    /\ flac_with_opus' = {}
    /\ delete_choice' = "none"
    /\ deleted_files' = {}
    /\ todo' = <<>>
    /\ future_to_file' = <<>>
    /\ collected' = {}
    /\ successful_conversions' = {}
    /\ failed_conversions' = {}
    /\ ret' = TRUE
    /\ unlinks' = NoUnlinks
    /\ fs0' = {}

\* a new call of run(), or the end of the process: every local is fresh
ResetLocals ==
    /\ ResetSelection
    /\ albums' = <<>>
    /\ selected_albums' = <<>>
    /\ ai' = 0
    /\ successful_albums' = 0
    /\ ResetAlbum

Start ==
    /\ pc = "start"
    /\ exit_code = 0
    /\ runs = 1
    /\ FreshLocals

\* any tree of at most MaxFiles files
Init ==
    /\ fs \in SubsetsUpTo(Universe, MaxFiles)
    /\ Start

\* one album with one FLAC file more than the pool has workers, none
\* converted yet
InitPool ==
    /\ fs = {File(D1, Nm(0, s, "flac")) : s \in 1..(max_workers + 1)}
    /\ Start

\* a catalog of 1..MaxAlbums albums of one FLAC file each
InitSel ==
    /\ fs \in {{File(<<k>>, Nm(0, 1, "flac")) : k \in 1..n} : n \in 1..MaxAlbums}
    /\ Start

\* the exit status is lost
ExitZero(code) ==
    /\ pc' = "exit"
    /\ exit_code' = 0
    /\ ResetLocals

\* the process ends: sys.exit(code), or the outermost run() returns (code 0)
Exit(code) ==
    /\ pc' = "exit"
    /\ exit_code' = code
    /\ ResetLocals

\* run(): if not self.check_opus_tools(): sys.exit(1)
CheckOpusTools ==
    /\ pc = "start"
    /\ \E available \in BOOLEAN :
          IF available
            THEN pc' = "scan" /\ UNCHANGED <<exit_code, selVars, runVars, albumVars>>
            ELSE Exit(1)
    /\ UNCHANGED <<fs, runs>>

\* run(): albums = self.find_albums_with_flac(); if not albums: return
Scan ==
    /\ pc = "scan"
    /\ IF find_albums_with_flac(fs) = <<>>
         THEN Exit(0)
         ELSE /\ albums' = find_albums_with_flac(fs)
              /\ pc' = "select"
              /\ UNCHANGED <<exit_code, selVars, selected_albums, ai,
                             successful_albums, albumVars>>
    /\ UNCHANGED <<fs, runs>>

\* run() once get_user_selection has returned chosen:
\* "No albums selected. Exiting." or the start of the album loop
Selected(chosen) ==
    IF chosen = <<>>
      THEN Exit(0)
      ELSE /\ selected_albums' = chosen
           /\ pc' = "existing"
           /\ ai' = 1
           /\ ResetSelection
           /\ UNCHANGED <<exit_code, albums, successful_albums, albumVars>>

\* the selection as the code reads it: input("Selection: ").strip().lower()
ReadSelection(ts) == Lower(Strip(Render(ts)))

\* the indices passed the validation: len(valid_indices) == len(selected_indices)
AllValid(indices, n) == Cardinality(ValidIndices(indices, n)) = Cardinality(indices)

\* the line is refused: print, continue
Refused(ts) ==
    /\ pc' = "reprompt"
    /\ typed' = ts
    /\ selection' = ReadSelection(ts)
    /\ UNCHANGED <<exit_code, runVars, albumVars>>

\* get_user_selection: the operator types the line of tokens ts
SelectInput(ts) ==
    /\ pc = "select"
    /\ LET sel == ReadSelection(ts)
       IN  IF sel = <<"a", "l", "l">>
             THEN Selected(albums)
           ELSE IF sel = <<>> \/ ~ParseOk(sel)
             THEN Refused(ts)
           ELSE IF ~AllValid(SelectedIndices(sel), Len(albums))
             THEN Refused(ts)
           ELSE /\ selected_albums' =
                     AlbumsAt(albums, ValidIndices(SelectedIndices(sel), Len(albums)))
                /\ pc' = "confirm"
                /\ typed' = ts
                /\ selection' = sel
                /\ UNCHANGED <<exit_code, albums, ai, successful_albums, albumVars>>
    /\ UNCHANGED <<fs, runs>>

\* the operator answers "Selection: " with a line of at most one token
SelectShort ==
    /\ pc = "select"
    /\ \E ts \in SeqsUpTo(Tokens(Len(albums)), 1) : SelectInput(ts)

\* the operator answers "Selection: " with a line of up to MaxTokens tokens
SelectLine ==
    /\ pc = "select"
    /\ \E ts \in SeqsUpTo(Tokens(Len(albums)), MaxTokens) : SelectInput(ts)

\* get_user_selection: continue, back to the top of the while loop
Reprompt ==
    /\ pc \in {"reprompt", "declined"}
    /\ pc' = "select"
    /\ ResetSelection
    /\ selected_albums' = <<>>
    /\ UNCHANGED <<fs, exit_code, runs, albums, ai, successful_albums, albumVars>>

\* get_user_selection: the answer to "Proceed with conversion? (Y/n)"
Confirm ==
    /\ pc = "confirm"
    /\ \E confirm \in {"y", "n"} :
          IF confirm = "n"
            THEN pc' = "declined" /\ UNCHANGED <<exit_code, selVars, runVars, albumVars>>
            ELSE Selected(selected_albums)
    /\ UNCHANGED <<fs, runs>>

\* get_user_selection: except KeyboardInterrupt: return []
SelectInterrupt ==
    /\ pc \in {"select", "confirm"}
    /\ Selected(<<>>)
    /\ UNCHANGED <<fs, runs>>

(***************************************************************************)
(* convert_album and handle_existing_opus_files                            *)
(***************************************************************************)
\* the album convert_album is working on
Album == selected_albums[ai]

\* the files of directory d named by the set of names ns
FilesOf(d, ns) == {File(d, n) : n \in ns}

\* opus_path.exists()
OpusExists(files, album, n) == File(album.path, OpusFile(n)) \in files

\* the search stops at the first FLAC file that has an Opus file
FlacWithOpusFirst(files, album) ==
    LET c == {k \in 1..Len(album.flac_files) :
                OpusExists(files, album, album.flac_files[k])}
    IN  IF c = {} THEN {}
        ELSE {album.flac_files[CHOOSE k \in c : \A j \in c : k <= j]}

\* handle_existing_opus_files: the FLAC files that have an Opus file
FlacWithOpus(files, album) ==
    {n \in Range(album.flac_files) : OpusExists(files, album, n)}

\* convert_album is entered: handle_existing_opus_files looks for candidates
EnterAlbum ==
    /\ pc = "existing"
    /\ flac_with_opus' = FlacWithOpus(fs, Album)
    /\ pc' = IF flac_with_opus' # {} THEN "prompt_delete" ELSE "dispatch"
    /\ todo' = Album.flac_files
    /\ fs0' = fs
    /\ UNCHANGED <<fs, exit_code, runs, selVars, runVars, delete_choice,
                   deleted_files, future_to_file, collected,
                   successful_conversions, failed_conversions, ret, unlinks>>

\* the metadata files of the deleted FLAC files that exist
ExistingMetadata(files, d, deleted) ==
    {m \in {MetadataFile(n) : n \in deleted} : File(d, m) \in files}

\* handle_existing_opus_files: "Delete these FLAC files? (Y/n)". Each unlink
\* may fail; a KeyboardInterrupt at the prompt skips the deletion.
DeleteExisting ==
    /\ pc = "prompt_delete"
    /\ \E choice \in {"y", "n", "interrupt"} :
          /\ delete_choice' = choice
          /\ IF choice = "y"
               THEN \E ok \in SUBSET {n \in flac_with_opus : File(Album.path, n) \in fs} :
                      LET left == fs \ FilesOf(Album.path, ok)
                          metadata == ExistingMetadata(left, Album.path, ok)
                      IN  \E okm \in SUBSET metadata :
                             /\ deleted_files' = ok
                             /\ fs' = left \ FilesOf(Album.path, okm)
                             /\ unlinks' = [unlinks EXCEPT
                                              !.existing = flac_with_opus,
                                              !.existing_metadata = metadata]
               ELSE UNCHANGED <<fs, deleted_files, unlinks>>
    /\ pc' = "dispatch"
    /\ UNCHANGED <<exit_code, runs, selVars, runVars, flac_with_opus, todo,
                   future_to_file, collected, successful_conversions,
                   failed_conversions, ret, fs0>>

\* the futures that have not finished
InFlight == {n \in DOMAIN future_to_file : future_to_file[n] \in {"PENDING", "RUNNING"}}

Running == {n \in DOMAIN future_to_file : future_to_file[n] = "RUNNING"}

\* a conversion that failed is never yielded
FinishedWithSuccess == {n \in DOMAIN future_to_file : future_to_file[n] = "TRUE"}

\* the futures as_completed can yield
Finished == {n \in DOMAIN future_to_file : future_to_file[n] \in {"TRUE", "FALSE"}}

\* the futures are not waited for
AfterSubmitLoopNoWait(futures) == "decide"

\* the submit loop is over: as_completed has something to wait for, or not
AfterSubmitLoop(futures) == IF DOMAIN futures = {} THEN "decide" ELSE "collect"

\* the test is missing: every file is submitted
SkipsNothing(files, album, n) == FALSE

\* the loop's test "if opus_path.exists(): continue"
SkipsFile(files, album, n) == OpusExists(files, album, n)

\* convert_album: one round of the loop "for flac_file in flac_files"
Submit ==
    /\ pc = "dispatch"
    /\ LET n == Head(todo)
       IN  /\ todo' = Tail(todo)
           /\ future_to_file' =
                 IF SkipsFile(fs, Album, n)
                   THEN future_to_file
                   ELSE [m \in DOMAIN future_to_file \cup {n} |->
                           IF m = n THEN "PENDING" ELSE future_to_file[m]]
           /\ pc' = IF todo' = <<>> THEN AfterSubmitLoop(future_to_file') ELSE "dispatch"
    /\ UNCHANGED <<fs, exit_code, runs, selVars, runVars, flac_with_opus,
                   delete_choice, deleted_files, collected, successful_conversions,
                   failed_conversions, ret, unlinks, fs0>>

\* a thread per work item
WorkerFreeAlways(futures) == TRUE

\* a worker thread of the pool is free to take a work item
WorkerFree(futures) ==
    Cardinality({n \in DOMAIN futures : futures[n] = "RUNNING"}) < max_workers

\* the work queue of the pool is first in, first out: the conversions were
\* submitted in the order of flac_files
QueueHead(futures, album) ==
    LET waiting == {k \in 1..Len(album.flac_files) :
                      /\ album.flac_files[k] \in DOMAIN futures
                      /\ futures[album.flac_files[k]] = "PENDING"}
    IN  album.flac_files[CHOOSE k \in waiting : \A j \in waiting : k <= j]

\* a worker thread takes a submitted conversion and starts opusenc
WorkerStart ==
    /\ WorkerFree(future_to_file)
    /\ \E n \in DOMAIN future_to_file : future_to_file[n] = "PENDING"
    /\ future_to_file' =
          [future_to_file EXCEPT ![QueueHead(future_to_file, Album)] = "RUNNING"]
    /\ UNCHANGED <<fs, pc, exit_code, runs, selVars, runVars, flac_with_opus,
                   delete_choice, deleted_files, todo, collected,
                   successful_conversions, failed_conversions, ret, unlinks, fs0>>

\* convert_flac_to_opus returns: opusenc exited with or without success,
\* having written the Opus file or not
WorkerFinish ==
    /\ \E n \in Running, success \in BOOLEAN, written \in BOOLEAN :
          /\ future_to_file' =
                [future_to_file EXCEPT ![n] = IF success THEN "TRUE" ELSE "FALSE"]
          /\ fs' = IF written THEN fs \cup {File(Album.path, OpusFile(n))} ELSE fs
    /\ UNCHANGED <<pc, exit_code, runs, selVars, runVars, flac_with_opus,
                   delete_choice, deleted_files, todo, collected,
                   successful_conversions, failed_conversions, ret, unlinks, fs0>>

\* the first future to complete ends the wait
FirstCollected(futures, yielded) == yielded # {}

\* the last future is not waited for
AllCollectedButOne(futures, yielded) ==
    Cardinality(yielded) + 1 >= Cardinality(DOMAIN futures)

\* as_completed has yielded every future
AllCollected(futures, yielded) == yielded = DOMAIN futures

\* the test of the target file is missing
ConvertedByStatus(files, album, n, success) == success

\* "if success and opus_path.exists()"
Converted(files, album, n, success) == success /\ OpusExists(files, album, n)

\* convert_album: one round of the loop "for future in as_completed(...)"
Collect ==
    /\ pc = "collect"
    /\ \E n \in Finished \ collected :
          /\ collected' = collected \cup {n}
          /\ IF Converted(fs, Album, n, future_to_file[n] = "TRUE")
               THEN /\ successful_conversions' = successful_conversions \cup {n}
                    /\ UNCHANGED failed_conversions
               ELSE /\ failed_conversions' = failed_conversions \cup {n}
                    /\ UNCHANGED successful_conversions
          /\ pc' = IF AllCollected(future_to_file, collected') THEN "decide" ELSE "collect"
    /\ UNCHANGED <<fs, exit_code, runs, selVars, runVars, flac_with_opus,
                   delete_choice, deleted_files, todo, future_to_file, ret,
                   unlinks, fs0>>

\* "if successful_conversions and not failed_conversions"
DeletesOriginals(successful, failed) == successful # {} /\ failed = {}

\* album_path.glob("*")
MetadataFilesAny(files, d) == {f \in files : f.dir = d}

\* list(album_path.glob("._*"))
MetadataFiles(files, d) == {f \in files : f.dir = d /\ MatchesMetadataGlob(f.name)}

\* the value convert_album returns
AlbumResult(successful, failed) ==
    IF DeletesOriginals(successful, failed) THEN TRUE
    ELSE IF failed # {} THEN FALSE
    ELSE TRUE

\* convert_album after the with block: delete the originals and the metadata
\* files, or keep them; each unlink may fail
Decide ==
    /\ pc = "decide"
    /\ IF DeletesOriginals(successful_conversions, failed_conversions)
         THEN \E ok \in SUBSET (FilesOf(Album.path, successful_conversions) \cap fs) :
                LET left == fs \ ok
                    metadata_files == MetadataFiles(left, Album.path)
                IN  \E okm \in SUBSET metadata_files :
                       /\ fs' = left \ okm
                       /\ unlinks' = [unlinks EXCEPT
                                        !.flac = successful_conversions,
                                        !.metadata = {f.name : f \in metadata_files}]
         ELSE UNCHANGED <<fs, unlinks>>
    /\ ret' = AlbumResult(successful_conversions, failed_conversions)
    /\ pc' = "returned"
    /\ UNCHANGED <<exit_code, runs, selVars, runVars, flac_with_opus,
                   delete_choice, deleted_files, todo, future_to_file, collected,
                   successful_conversions, failed_conversions, fs0>>

\* run(): "if self.convert_album(album): successful_albums += 1", then the
\* next album of the selection or "Would you like to convert more albums?"
NextAlbum ==
    /\ pc = "returned"
    /\ successful_albums' = IF ret THEN successful_albums + 1 ELSE successful_albums
    /\ IF ai < Len(selected_albums)
         THEN ai' = ai + 1 /\ pc' = "existing"
         ELSE pc' = "more" /\ UNCHANGED ai
    /\ ResetAlbum
    /\ UNCHANGED <<fs, exit_code, runs, selVars, albums, selected_albums>>

\* run(): the answer to "convert more albums?": self.run() again, or the end
ConvertMore ==
    /\ pc = "more"
    /\ \E continue_choice \in {"y", "n", "interrupt"} :
          IF continue_choice = "y"
            THEN /\ runs < MaxRuns
                 /\ runs' = runs + 1
                 /\ pc' = "start"
                 /\ ResetLocals
                 /\ UNCHANGED exit_code
            ELSE Exit(0) /\ UNCHANGED runs
    /\ UNCHANGED fs

\* a KeyboardInterrupt while convert_album waits in as_completed: the
\* exception leaves the loop and the with block's exit,
\* executor.shutdown(wait=True), joins the workers
Interrupt ==
    /\ pc = "collect"
    /\ pc' = "interrupted"
    /\ flac_with_opus' = {}
    /\ delete_choice' = "none"
    /\ deleted_files' = {}
    /\ collected' = {}
    /\ successful_conversions' = {}
    /\ failed_conversions' = {}
    /\ unlinks' = NoUnlinks
    /\ fs0' = {}
    /\ UNCHANGED <<fs, exit_code, runs, selVars, runVars, todo, future_to_file, ret>>

\* the workers are joined and the KeyboardInterrupt reaches main():
\* sys.exit(0)
Cancelled ==
    /\ pc = "interrupted"
    /\ InFlight = {}
    /\ Exit(0)
    /\ UNCHANGED <<fs, runs>>

\* the steps after get_user_selection
Convert ==
    \/ EnterAlbum
    \/ DeleteExisting
    \/ Submit
    \/ WorkerStart
    \/ WorkerFinish
    \/ Collect
    \/ Decide
    \/ NextAlbum
    \/ ConvertMore
    \/ Interrupt
    \/ Cancelled

Next ==
    \/ CheckOpusTools
    \/ Scan
    \/ SelectShort
    \/ Reprompt
    \/ Confirm
    \/ SelectInterrupt
    \/ Convert

\* the run up to the return of get_user_selection
NextSel ==
    \/ CheckOpusTools
    \/ Scan
    \/ SelectLine
    \/ Reprompt
    \/ Confirm
    \/ SelectInterrupt

Spec == Init /\ [][Next]_vars

SpecPool == InitPool /\ [][Next]_vars

SpecSel == InitSel /\ [][NextSel]_vars

\* The threads run: the main thread goes on with its loops, a free worker
\* takes the next work item, and opusenc exits.
Fairness ==
    /\ WF_vars(Submit)
    /\ WF_vars(WorkerStart)
    /\ WF_vars(WorkerFinish)
    /\ WF_vars(Collect)
    /\ WF_vars(Decide)

SpecLive == Init /\ [][Next]_vars /\ Fairness

\* The encoder is there and every conversion succeeds, writing its target;
\* the operator selects at least one album and answers every prompt with the
\* default; every unlink succeeds.
Defaults ==
    /\ pc = "start" => pc' = "scan"
    /\ pc = "select" => (pc' \in {"existing", "confirm"} /\ selected_albums' # <<>>)
    /\ pc = "confirm" => pc' = "existing"
    /\ pc = "prompt_delete" =>
          /\ delete_choice' = "y"
          /\ deleted_files' = flac_with_opus
          /\ \A n \in flac_with_opus : File(Album.path, MetadataFile(n)) \notin fs'
    /\ \A n \in DOMAIN future_to_file \cap DOMAIN future_to_file' :
          (future_to_file[n] = "RUNNING" /\ future_to_file'[n] # "RUNNING") =>
              /\ future_to_file'[n] = "TRUE"
              /\ File(Album.path, OpusFile(n)) \in fs'
    /\ pc = "decide" =>
          /\ FilesOf(Album.path, successful_conversions) \cap fs' = {}
          /\ DeletesOriginals(successful_conversions, failed_conversions) =>
                MetadataFiles(fs', Album.path) = {}
    /\ pc = "more" => pc' = "start"

\* run() with such an encoder, operator and file system
NextDefaults ==
    \/ CheckOpusTools /\ Defaults
    \/ Scan /\ Defaults
    \/ SelectShort /\ Defaults
    \/ Confirm /\ Defaults
    \/ EnterAlbum /\ Defaults
    \/ DeleteExisting /\ Defaults
    \/ Submit /\ Defaults
    \/ WorkerStart /\ Defaults
    \/ WorkerFinish /\ Defaults
    \/ Collect /\ Defaults
    \/ Decide /\ Defaults
    \/ NextAlbum /\ Defaults
    \/ ConvertMore /\ Defaults

SpecDefaults == Init /\ [][NextDefaults]_vars

(***************************************************************************)
(* Properties                                                              *)
(***************************************************************************)
\* the FLAC files convert_album submitted to the pool
Dispatched == DOMAIN future_to_file

\* the FLAC files of the album, as files
Sources == FilesOf(Album.path, Range(Album.flac_files))

\* convert_album is at its return statement
AtReturn == pc = "returned"

\* C1: when a dispatched conversion of the album has failed, convert_album
\* returns False and none of the source files it dispatched has been deleted
\* by it.
C1_FailedAlbumKeepsDispatched ==
    (AtReturn /\ failed_conversions # {}) =>
        /\ ret = FALSE
        /\ \A n \in Dispatched :
              File(Album.path, n) \in fs0 => File(Album.path, n) \in fs

\* C2: when conversions were dispatched and all of them were Converted, the
\* unlink calls of the Decide/Cleanup step on source files of the album are
\* exactly those on the Converted sources.
C2_CleanupUnlinksOnlyConverted ==
    (AtReturn /\ Dispatched # {} /\ failed_conversions = {}) =>
        (unlinks.flac \cup unlinks.metadata) \cap Range(Album.flac_files)
            = successful_conversions

\* the files the step from this state to the next removes
Removed == fs \ fs'

Unlinking == \E k \in DOMAIN unlinks : unlinks'[k] \ unlinks[k] # {}

\* C4: a step that removes a file, or calls unlink, is taken only when no
\* dispatched conversion is pending or running.
C4_NoDeletionWhileConverting ==
    [][(Removed # {} \/ Unlinking) => InFlight = {}]_vars

\* files have been removed after two conversions of the album ran
C4_Witness ==
    /\ AtReturn
    /\ Cardinality(Dispatched) >= 2
    /\ \E f \in Sources : f \in fs0 /\ f \notin fs

\* C5: at the Decide step every dispatched conversion has finished and has
\* exactly one recorded outcome.
C5_DecideAfterAllOutcomes ==
    pc \in {"decide", "returned"} =>
        /\ InFlight = {}
        /\ collected = Dispatched
        /\ successful_conversions \cup failed_conversions = Dispatched
        /\ successful_conversions \cap failed_conversions = {}

\* Decide is reached with a Converted and a Failed conversion
C5_Witness ==
    /\ pc = "decide"
    /\ successful_conversions # {}
    /\ failed_conversions # {}

\* C6: at most 4 conversions run at a time.
C6_AtMostFourRunning == Cardinality(Running) <= 4

\* four conversions run while a fifth is waiting
C6_Witness ==
    /\ Cardinality(Running) = 4
    /\ \E n \in Dispatched : future_to_file[n] = "PENDING"

\* C7: the album loop moves from position k to position k + 1 only, and only
\* from the return of convert_album for position k, when none of its
\* conversions is pending, running or uncollected; whatever is dispatched
\* belongs to the album of the current position.
C7_AlbumsOneAtATime ==
    [][/\ (ai' # ai /\ ai' # 0) =>
             /\ ai' = ai + 1
             /\ ai = 0 \/ (AtReturn /\ InFlight = {} /\ collected = Dispatched)
       /\ (ai' >= 1 /\ pc' # "exit") =>
             DOMAIN future_to_file' \subseteq Range(selected_albums'[ai'].flac_files)
       /\ pc' \in {"existing", "prompt_delete"} => future_to_file' = <<>>]_vars

\* the second album of the selection is about to be processed
C7_Witness ==
    /\ pc = "prompt_delete"
    /\ ai = 2

\* every source of the album had its Opus file when convert_album was entered
AllHadOpus == \A n \in Range(Album.flac_files) : OpusExists(fs0, Album, n)

\* C8: an album whose sources all have their Opus file, the operator declining
\* the deletion: nothing is dispatched, nothing deleted, the files are as they
\* were, and the result is the "No new conversions needed" True; in every call
\* of run().
C8_ConvertedAlbumIsNoOp ==
    (AtReturn /\ AllHadOpus /\ delete_choice = "n") =>
        /\ Dispatched = {}
        /\ successful_conversions = {} /\ failed_conversions = {}
        /\ unlinks = NoUnlinks
        /\ fs = fs0
        /\ ret = TRUE

\* the second run over such an album returns
C8_Witness ==
    /\ AtReturn
    /\ AllHadOpus
    /\ delete_choice = "n"
    /\ runs = 2

\* the indices a list of integer and range tokens names
TokenIndices(t) == IF t.k = "range" THEN t.i..t.j ELSE {t.i}

Named(ts) == UNION {TokenIndices(ts[k]) : k \in 1..Len(ts)}

\* a non-empty list of integers and ranges
IsExpression(ts) ==
    /\ ts # <<>>
    /\ \A k \in 1..Len(ts) : ts[k].k \in {"int", "padded", "range"}

\* C9: an expression of integers and ranges is accepted exactly when every
\* index it names is in 1..N; what is then proposed is the albums at the
\* named indices, in ascending order of index, each once.
C9_SelectionIsTheNamedAlbums ==
    /\ (pc = "confirm") =>
          /\ IsExpression(typed)
          /\ Named(typed) \subseteq 1..Len(albums)
          /\ Len(selected_albums) = Cardinality(Named(typed))
          /\ \A k \in 1..Len(selected_albums) :
                \E i \in Named(typed) :
                   /\ Cardinality({j \in Named(typed) : j < i}) = k - 1
                   /\ selected_albums[k] = albums[i]
    /\ (pc = "reprompt" /\ IsExpression(typed)) =>
          \E i \in Named(typed) : i \notin 1..Len(albums)

\* "1-2,1" is proposed as albums 1 and 2
C9_Witness ==
    /\ pc = "confirm"
    /\ Len(typed) = 2
    /\ typed[1].k = "range"
    /\ Len(selected_albums) = 2

\* C10: a line with a reversed range i-j, i > j, never reaches the
\* confirmation prompt.
C10_ReversedRangeRejected ==
    (\E k \in 1..Len(typed) : typed[k].k = "range" /\ typed[k].i > typed[k].j) =>
        pc # "confirm"

\* C11: get_user_selection returns a non-empty selection only from the
\* confirmation prompt, for every accepted line, the keyword all included; a
\* negative answer goes back to the selection prompt with the same catalog.
C11_FinalOnlyAfterConfirmation ==
    [][/\ (pc \in {"select", "confirm"} /\ pc' = "existing") => pc = "confirm"
       /\ pc' = "declined" => (pc = "confirm" /\ albums' = albums)
       /\ pc = "declined" => (pc' = "select" /\ albums' = albums /\ fs' = fs)]_vars

\* C12 (as stated): a collected conversion is recorded Converted exactly when
\* convert_flac_to_opus returned True (opusenc exited with success), Failed
\* exactly when it returned False.
C12_OutcomeIsExitStatus ==
    \A n \in collected :
       /\ n \in successful_conversions <=> future_to_file[n] = "TRUE"
       /\ n \in failed_conversions <=> future_to_file[n] = "FALSE"

\* C12 (amended): the conversion convert_album collects is recorded Converted
\* exactly when convert_flac_to_opus returned True and the target file exists
\* at that moment, and Failed otherwise.
C12_OutcomeIsStatusAndTarget ==
    [][\A n \in collected' \ collected :
          LET ok == /\ future_to_file[n] = "TRUE"
                    /\ File(Album.path, OpusFile(n)) \in fs
          IN  /\ ok => (n \in successful_conversions' /\ n \notin failed_conversions')
              /\ ~ok => (n \in failed_conversions' /\ n \notin successful_conversions')]_vars

\* opusenc exited with success and the conversion is recorded Failed
C12_Witness ==
    /\ pc \in {"collect", "decide"}
    /\ \E n \in failed_conversions : future_to_file[n] = "TRUE"

\* C13: a call of run() begins with the probe and nothing else: from the
\* start of a run the only steps are to the scan or to the exit with code 1,
\* no file is touched, no selection asked, no conversion submitted; the scan
\* is entered from the probe only, no other step ends with exit code 1, and
\* a restart goes to the probe.
C13_ProbeFirst ==
    [][/\ pc = "start" =>
             /\ pc' \in {"scan", "exit"}
             /\ pc' = "exit" => exit_code' = 1
             /\ fs' = fs
             /\ typed = <<>> /\ typed' = <<>>
             /\ future_to_file = <<>> /\ future_to_file' = <<>>
             /\ unlinks = NoUnlinks /\ unlinks' = NoUnlinks
       /\ pc' = "scan" => pc = "start"
       /\ exit_code' = 1 => pc = "start"
       /\ runs' # runs => (runs' = runs + 1 /\ pc' = "start" /\ InFlight = {})]_vars

\* the probe of a restarted run has failed
C13_Witness ==
    /\ pc = "exit"
    /\ exit_code = 1
    /\ runs = 2

\* C14: once the operator has interrupted a wait whose interrupt the run
\* survives to act on (the deletion prompt, the wait for the conversions), no
\* conversion is submitted and no file is removed any more.
C14_InterruptEndsTheRun ==
    [][(delete_choice = "interrupt" \/ pc = "interrupted") =>
          /\ Removed = {}
          /\ DOMAIN future_to_file' \subseteq DOMAIN future_to_file]_vars

\* the catalog is the one of the files now on disk: nothing has touched them
\* since the scan
AtSelection == pc \in {"select", "confirm", "reprompt", "declined"}

\* C15: the catalog has no album for the root directory, no two albums for
\* one directory, and every album lists files that are immediately in its own
\* directory, at least one.
C15_AlbumsAreDirectories ==
    AtSelection =>
        \A k \in 1..Len(albums) :
           /\ albums[k].path # Root
           /\ albums[k].flac_files # <<>>
           /\ \A n \in Range(albums[k].flac_files) : File(albums[k].path, n) \in fs
           /\ \A j \in 1..Len(albums) : albums[j].path = albums[k].path => j = k

\* a FLAC file in the root, an album and an album nested in it
C15_Witness ==
    /\ pc = "select"
    /\ File(Root, Nm(0, 1, "flac")) \in fs
    /\ File(D11, Nm(0, 1, "flac")) \in fs
    /\ Len(albums) = 2

\* C16: no two conversions submitted for an album have the same target file.
C16_TargetsAreDistinct ==
    \A n \in Dispatched : \A m \in Dispatched :
       n # m => OpusFile(n) # OpusFile(m)

\* a conversion of the album has failed
SomeFailed == \E n \in Dispatched : future_to_file[n] = "FALSE"

\* C17: once a conversion of the album has failed, convert_album still gets
\* to its return (unless the operator interrupts the wait), and it returns
\* with every conversion it submitted finished and collected with one outcome
\* of its own: a failed one is Failed, and a Converted one is one that
\* succeeded.
C17_FailureIsPerFile ==
    /\ [](AtReturn =>
             /\ InFlight = {}
             /\ collected = Dispatched
             /\ successful_conversions \cup failed_conversions = Dispatched
             /\ successful_conversions \cap failed_conversions = {}
             /\ \A n \in Dispatched :
                   /\ future_to_file[n] = "FALSE" => n \in failed_conversions
                   /\ n \in successful_conversions => future_to_file[n] = "TRUE"
             /\ failed_conversions # {} => ret = FALSE)
    /\ SomeFailed ~> (AtReturn \/ pc = "interrupted")

\* convert_album returns with a Failed and a Converted conversion
C17_Witness ==
    /\ AtReturn
    /\ \E n \in failed_conversions : future_to_file[n] = "FALSE"
    /\ successful_conversions # {}

\* the sources of the album whose Opus file is on disk
Candidates ==
    {n \in Range(Album.flac_files) : File(Album.path, OpusFile(n)) \in fs}

\* C18: at the deletion prompt of handle_existing_opus_files, unless the
\* operator opts out, unlink is called on every candidate, and the list
\* returned is the candidates whose unlink succeeded: they are gone, and a
\* candidate not in the list is still there unless it went as the ._ file of
\* one that is; on n nothing is removed and the list is empty.
C18_DeletesEveryCandidate ==
    [][pc = "prompt_delete" =>
         /\ delete_choice' = "y" =>
               /\ unlinks'.existing = Candidates
               /\ deleted_files' \subseteq Candidates
               /\ \A n \in deleted_files' : File(Album.path, n) \notin fs'
               /\ \A n \in Candidates \ deleted_files' :
                     \/ File(Album.path, n) \in fs'
                     \/ \E m \in deleted_files' : n = MetadataFile(m)
         /\ delete_choice' = "n" =>
               /\ fs' = fs
               /\ deleted_files' = {}
               /\ unlinks' = unlinks]_vars

\* the unlink of the first of two candidates failed, that of the second
\* succeeded
C18_Witness ==
    /\ pc = "dispatch"
    /\ delete_choice = "y"
    /\ unlinks.existing = {Nm(0, 1, "flac"), Nm(0, 1, "FLAC")}
    /\ deleted_files = {Nm(0, 1, "FLAC")}

\* the sources of the album whose Opus file the program has seen on disk:
\* at line 225, at line 286 (the file is skipped) or at line 299
Observed ==
    flac_with_opus \cup successful_conversions
    \cup (Range(Album.flac_files) \ (Range(todo) \cup Dispatched))

\* C19: a source of the album that is gone since convert_album was entered
\* is one whose Opus file the program has seen on disk.
C19_DeletedOnlyIfTargetSeen ==
    pc \in {"prompt_delete", "dispatch", "collect", "decide", "returned"} =>
        \A n \in Range(Album.flac_files) :
           (File(Album.path, n) \in fs0 /\ File(Album.path, n) \notin fs) =>
               n \in Observed

\* C20: with the encoder, the operator and the file system of Defaults, when
\* run() is restarted the scan that follows finds fewer albums than the
\* catalog of the run that ends.
C20_CatalogShrinks ==
    [][(pc = "more" /\ pc' = "start") =>
          Len(find_albums_with_flac(fs)) < Len(albums)]_vars

====
